---------------------------- MODULE Spec2Model ----------------------------
(***************************************************************************)
(* Bucketed Random Projection index (brp/libs/indexer.py, brp/libs/lsh.py). *)
(*                                                                         *)
(* The SQLite store is three tables held as sequences of rows in rowid     *)
(* order; the in-memory _BRPModel is a record; the build loop of           *)
(* generate_buckets is stepped one Data row at a time.                     *)
(***************************************************************************)
EXTENDS Integers, Sequences, FiniteSets, TLC

(***************************************************************************)
(* Bounds of the model.                                                    *)
(***************************************************************************)
MaxData == 2        \* rows the data table may hold
MaxBuckets == 2     \* rows the bucket table may hold through create(Bucket)
MaxH == 2           \* largest configured num_hyperplanes
MaxK == 2           \* largest k of a query
MaxHashLen == 3     \* longest hashset flattened on its own
MaxBin == 2         \* largest magnitude of a hash in such a hashset

\* Python's None, SQL's NULL (ids start at 1, so 0 is free).
None == 0

\* Inputs the callers draw from.
\* Records of the dataset file: {raw, embedding}.
Dataset == {[raw |-> "A", embedding |-> <<1, 0>>], [raw |-> "B", embedding |-> <<0, 1>>]}
BucketSizes == {2}
Queries == {<<1, 0>>, <<0, 0>>, <<1, 0, 0>>}
Hashes == {-1, 0}

(***************************************************************************)
(* Python numerics and text.                                               *)
(***************************************************************************)
Nums == -2 .. 2

\* repr of a float.
float_repr(x) ==
    CASE x = -2 -> "-2.0" [] x = -1 -> "-1.0" [] x = 0 -> "0.0"
      [] x = 1 -> "1.0" [] x = 2 -> "2.0"

\* float(s): the number a decimal text denotes (leading blanks accepted).
float(s) == CHOOSE x \in Nums : float_repr(x) = s

\* str(v) of a tuple of floats: "(" x1 ", " x2 ... ")" as a token sequence.
RECURSIVE join(_)
join(v) ==
    IF v = <<>> THEN <<>>
    ELSE IF Len(v) = 1 THEN <<float_repr(v[1])>>
    ELSE <<float_repr(v[1]), ",">> \o join(Tail(v))

str(v) == <<"(">> \o join(v) \o <<")">>

\* text[1:-1].split(","): the fields between the separators.
RECURSIVE split(_)
split(toks) ==
    IF toks = <<>> THEN <<>>
    ELSE IF toks[1] = "," THEN split(Tail(toks))
    ELSE <<toks[1]>> \o split(Tail(toks))

\* Hyperplane.__post_init__ / Data.__post_init__: parse a stored vector.
__post_init__(text) ==
    LET inner == SubSeq(text, 2, Len(text) - 1)
        fields == split(inner)
    IN  [i \in 1 .. Len(fields) |-> float(fields[i])]

\* np.dot(v, w); the caller checks the shapes.
RECURSIVE dot(_, _)
dot(v, w) == IF v = <<>> THEN 0 ELSE v[1] * w[1] + dot(Tail(v), Tail(w))

\* np.linalg.norm(w) for a sample whose squared length is a perfect square.
norm(w) == CHOOSE n \in 0 .. dot(w, w) : n * n = dot(w, w)

\* Squared Euclidean distance: np.linalg.norm(qv - v) orders candidates as
\* its square does, and is 0 exactly when the square is.
dist(q, v) == LET d == [i \in 1 .. Len(q) |-> q[i] - v[i]] IN dot(d, d)

(***************************************************************************)
(* State.                                                                  *)
(***************************************************************************)
VARIABLES
    hyperplane,   \* table hyperplane: rows [id, vector]
    bucket,       \* table bucket: rows [id, hash]
    data,         \* table data: rows [id, raw, embedding, bucket_id]
    model,        \* the _BRPModel object: [hyperplanes, num_hyperplanes, bucket_size]
    pc,           \* "idle", or "build" inside generate_buckets' loop
    cursor,       \* the rows fetch_all_data still has to yield to the loop
    ret           \* the last call and what it returned or raised

vars == <<hyperplane, bucket, data, model, pc, cursor, ret>>

(***************************************************************************)
(* SQL layer: Index._execute_insert, _execute_update, _execute_select.    *)
(***************************************************************************)
MaxId(tbl) == IF tbl = <<>> THEN 0 ELSE tbl[Len(tbl)].id

\* INSERT: the rowid of an INTEGER PRIMARY KEY is one past the largest.
_execute_insert(tbl, row) ==
    LET id_ == MaxId(tbl) + 1
    IN  [tbl |-> Append(tbl, ("id" :> id_) @@ row), lastrowid |-> id_]

\* UPDATE t SET ... WHERE id = ?  (id = NULL matches no row).
_execute_update(tbl, id_, f_mapping) ==
    [i \in 1 .. Len(tbl) |->
        IF id_ # None /\ tbl[i].id = id_ THEN f_mapping @@ tbl[i] ELSE tbl[i]]

\* SELECT * FROM t WHERE col = ?, in rowid order.
_execute_select(tbl, col, val) == SelectSeq(tbl, LAMBDA row : row[col] = val)

(***************************************************************************)
(* Index: entities are records; an optional entity (Bucket | None) is a    *)
(* sequence of length 0 or 1.                                              *)
(***************************************************************************)
\* fetch_bucket that never finds a row.
fetch_bucket_miss(tbl, hash) == <<>>

\* Index.fetch_bucket: the first bucket row with this hash, or None.
fetch_bucket(tbl, hash) ==
    LET rows == _execute_select(tbl, "hash", hash)
    IN  IF rows = <<>> THEN <<>>
        ELSE <<[id |-> rows[1].id, hash |-> rows[1].hash]>>

\* _BaseModel._prepare_mapping for a Data: None-valued fields are left out.
_prepare_mapping(m) ==
    LET base == [raw |-> m.raw, embedding |-> str(m.embedding)]
    IN  IF m.bucket # <<>> /\ m.bucket[1].id # None
        THEN ("bucket_id" :> m.bucket[1].id) @@ base
        ELSE base

\* _create_bucket without the lookup: every call inserts.
_create_bucket_always_insert(tbl, m) ==
    LET ins == _execute_insert(tbl, [hash |-> m.hash])
    IN  [tbl |-> ins.tbl, model |-> [id |-> ins.lastrowid, hash |-> m.hash],
         arg |-> [id |-> ins.lastrowid, hash |-> m.hash]]

\* Index._create_bucket: get-or-create on hash.  model is the object returned,
\* arg the object passed in as the call leaves it: on the get path the fetched
\* object is returned and the one passed in is not touched; on the insert path
\* the one passed in gets its id and is returned.
_create_bucket(tbl, m) ==
    LET fetched_model == fetch_bucket(tbl, m.hash)
    IN  IF fetched_model # <<>>
        THEN [tbl |-> tbl, model |-> fetched_model[1], arg |-> m]
        ELSE LET ins == _execute_insert(tbl, [hash |-> m.hash])
             IN  [tbl |-> ins.tbl, model |-> [id |-> ins.lastrowid, hash |-> m.hash],
                  arg |-> [id |-> ins.lastrowid, hash |-> m.hash]]

\* Index._create_data: a column the mapping leaves out is stored NULL.
_create_data(tbl, m) ==
    LET f_mapping == IF m.bucket # <<>>
                     THEN ("bucket_id" :> m.bucket[1].id) @@ _prepare_mapping(m)
                     ELSE _prepare_mapping(m)
        ins == _execute_insert(tbl, f_mapping @@ [bucket_id |-> None])
    IN  [tbl |-> ins.tbl, model |-> [m EXCEPT !.id = ins.lastrowid]]

\* Index._create_hyperplane: the returned model keeps the id it came with.
_create_hyperplane(tbl, m) ==
    [tbl |-> _execute_insert(tbl, [vector |-> str(m.vector)]).tbl, model |-> m]

\* _update_data that never writes bucket_id.
_update_data_base_only(tbl, m) ==
    _execute_update(tbl, m.id, [raw |-> m.raw, embedding |-> str(m.embedding)])

\* Index._update_data: bucket_id is written only when the model has a bucket.
_update_data(tbl, m) ==
    LET f_mapping == IF m.bucket # <<>>
                     THEN ("bucket_id" :> m.bucket[1].id) @@ _prepare_mapping(m)
                     ELSE _prepare_mapping(m)
    IN  _execute_update(tbl, m.id, f_mapping)

\* Index._update_bucket.
_update_bucket(tbl, m) == _execute_update(tbl, m.id, [hash |-> m.hash])

\* Index.fetch_all_data's hydration of one row: the related bucket is looked
\* up with fetch_bucket, whose argument is a hash.
hydrate(row, tbl_bucket) ==
    [id |-> row.id, raw |-> row.raw, embedding |-> __post_init__(row.embedding),
     bucket |-> IF row.bucket_id # None THEN fetch_bucket(tbl_bucket, row.bucket_id)
                ELSE <<>>]

\* Index.fetch_all_data: every row, hydrated, in rowid order.
fetch_all_data(tbl, tbl_bucket) == [i \in 1 .. Len(tbl) |-> hydrate(tbl[i], tbl_bucket)]

\* Index.fetch_data: the first row with this raw, hydrated the same way, or None.
fetch_data(tbl, tbl_bucket, raw) ==
    LET rows == _execute_select(tbl, "raw", raw)
    IN  IF rows = <<>> THEN <<>> ELSE <<hydrate(rows[1], tbl_bucket)>>

\* A call either returns a value or raises.
Ok(v) == [status |-> "ok", value |-> v]
Raise(e) == [status |-> "error", error |-> e]

\* fetch_bucket_data that yields every Data row, whatever its bucket.
fetch_bucket_data_all(tbl, b) ==
    Ok([i \in 1 .. Len(tbl) |->
            [id |-> tbl[i].id, raw |-> tbl[i].raw,
             embedding |-> __post_init__(tbl[i].embedding), bucket |-> <<b>>]])

\* fetch_bucket_data without the check of bucket.id.
fetch_bucket_data_unchecked(tbl, b) ==
    LET rows == _execute_select(tbl, "bucket_id", b.id)
    IN  Ok([i \in 1 .. Len(rows) |->
            [id |-> rows[i].id, raw |-> rows[i].raw,
             embedding |-> __post_init__(rows[i].embedding), bucket |-> <<b>>]])

\* Index.fetch_bucket_data: PermissionError for a bucket with no id, else the
\* rows whose bucket_id is the bucket's id, each carrying the bucket given.
fetch_bucket_data(tbl, b) ==
    IF b.id = None THEN Raise("PermissionError")
    ELSE LET rows == _execute_select(tbl, "bucket_id", b.id)
         IN  Ok([i \in 1 .. Len(rows) |->
                    [id |-> rows[i].id, raw |-> rows[i].raw,
                     embedding |-> __post_init__(rows[i].embedding), bucket |-> <<b>>]])

\* update that also writes a Hyperplane's vector.
update_any(kind, m, tbls) ==
    IF kind = "Data"
    THEN [tbls |-> [tbls EXCEPT !.data = _update_data(tbls.data, m)], result |-> Ok(m)]
    ELSE IF kind = "Bucket"
    THEN [tbls |-> [tbls EXCEPT !.bucket = _update_bucket(tbls.bucket, m)], result |-> Ok(m)]
    ELSE [tbls |-> [tbls EXCEPT !.hyperplane =
                        _execute_update(tbls.hyperplane, m.id, [vector |-> str(m.vector)])],
          result |-> Ok(m)]

\* Index.update: dispatch on the model's type; TypeError for any other type.
\* tbls is the store: [hyperplane, bucket, data].
update(kind, m, tbls) ==
    IF kind = "Data"
    THEN [tbls |-> [tbls EXCEPT !.data = _update_data(tbls.data, m)], result |-> Ok(m)]
    ELSE IF kind = "Bucket"
    THEN [tbls |-> [tbls EXCEPT !.bucket = _update_bucket(tbls.bucket, m)], result |-> Ok(m)]
    ELSE [tbls |-> tbls, result |-> Raise("TypeError")]

\* Index.fetch_all_hyperplanes.
fetch_all_hyperplanes(tbl) ==
    [i \in 1 .. Len(tbl) |-> [id |-> tbl[i].id, vector |-> __post_init__(tbl[i].vector)]]

(***************************************************************************)
(* _BRPModel (lsh.py).                                                     *)
(***************************************************************************)

\* _BRPModel._compute_hash: int(np.floor(np.dot(v, w) / r)), r > 0.
_compute_hash(v, w, r) == dot(v, w) \div r

\* _compute_hash_set whose dot product stops at the shorter vector, as a zip
\* of the two would.
_compute_hash_set_zip(hyperplanes, v, r) ==
    Ok([i \in 1 .. Len(hyperplanes) |->
          LET w == hyperplanes[i].vector
              n == IF Len(w) < Len(v) THEN Len(w) ELSE Len(v)
          IN  _compute_hash(SubSeq(v, 1, n), SubSeq(w, 1, n), r)])

\* _BRPModel._compute_hash_set: np.dot raises ValueError on vectors of
\* different lengths.
_compute_hash_set(hyperplanes, v, r) ==
    IF \E i \in 1 .. Len(hyperplanes) : Len(hyperplanes[i].vector) # Len(v)
    THEN Raise("ValueError")
    ELSE Ok([i \in 1 .. Len(hyperplanes) |-> _compute_hash(v, hyperplanes[i].vector, r)])

\* flatten_sum without the doubling of each hash.
RECURSIVE flatten_sum_undoubled(_)
flatten_sum_undoubled(u) ==
    IF Len(u) <= 1 THEN 0
    ELSE u[1] ^ (Len(u) - 1) + flatten_sum_undoubled(Tail(u))

\* _BRPModel._flatten_hashset: u[-1] of an empty list raises IndexError.
RECURSIVE flatten_sum(_)
flatten_sum(u) ==
    IF Len(u) <= 1 THEN 0
    ELSE (u[1] * 2) ^ (Len(u) - 1) + flatten_sum(Tail(u))

_flatten_hashset(u) ==
    IF u = <<>> THEN Raise("IndexError")
    ELSE Ok(flatten_sum(u) + u[Len(u)])

\* flatten(hashset(v)) as both callers compute it.
hash_index(hyperplanes, v, r) ==
    LET hash_set == _compute_hash_set(hyperplanes, v, r)
    IN  IF hash_set.status = "error" THEN hash_set
        ELSE _flatten_hashset(hash_set.value)

\* np.random.randn(n): the draws the model follows (along the first axis).
Samples(n) == {[i \in 1 .. n |-> IF i = 1 THEN c ELSE 0] : c \in {-2, 2}}

\* w /= np.linalg.norm(w)
normalize(w) == [i \in 1 .. Len(w) |-> w[i] \div norm(w)]

\* _BRPModel._gen_random_hyperplanes: every list it can return.
_gen_random_hyperplanes(num_hyperplanes, n) ==
    {[j \in 1 .. num_hyperplanes |-> normalize(ws[j])] :
        ws \in [1 .. num_hyperplanes -> Samples(n)]}

\* An unstable sort: an element goes before the equal keys already placed.
RECURSIVE insert_sorted_ties_first(_, _)
insert_sorted_ties_first(xs, x) ==
    IF xs = <<>> THEN <<x>>
    ELSE IF x[1] <= xs[1][1] THEN <<x>> \o xs
    ELSE <<xs[1]>> \o insert_sorted_ties_first(Tail(xs), x)

\* sorted(xs, key=lambda x: x[0]): stable.
RECURSIVE insert_sorted(_, _)
insert_sorted(xs, x) ==
    IF xs = <<>> THEN <<x>>
    ELSE IF x[1] < xs[1][1] THEN <<x>> \o xs
    ELSE <<xs[1]>> \o insert_sorted(Tail(xs), x)

RECURSIVE sorted(_)
sorted(xs) ==
    IF xs = <<>> THEN <<>>
    ELSE insert_sorted(sorted(SubSeq(xs, 1, Len(xs) - 1)), xs[Len(xs)])

Min(a, b) == IF a < b THEN a ELSE b
Max(a, b) == IF a > b THEN a ELSE b

\* xs[:k]
slice(xs, k) ==
    IF k >= 0 THEN SubSeq(xs, 1, Min(k, Len(xs)))
    ELSE SubSeq(xs, 1, Max(Len(xs) + k, 0))

\* _BRPModel.get_approximate_nearest_neighbors.  fetch_bucket_data is a
\* generator: its body starts at the loop's first step, where bucket.id of
\* None raises AttributeError; qv - v raises ValueError on a shape mismatch.
get_approximate_nearest_neighbors(m, tbl_bucket, tbl_data, query, k) ==
    LET key == hash_index(m.hyperplanes, query, m.bucket_size)
    IN  IF key.status = "error" THEN key
        ELSE LET b == fetch_bucket(tbl_bucket, key.value)
             IN  IF b = <<>> THEN Raise("AttributeError")
                 ELSE LET ds == fetch_bucket_data(tbl_data, b[1]).value
                      IN  IF \E i \in 1 .. Len(ds) : Len(ds[i].embedding) # Len(query)
                          THEN Raise("ValueError")
                          ELSE Ok(slice(sorted([i \in 1 .. Len(ds) |->
                                    <<dist(query, ds[i].embedding), ds[i].raw>>]), k))

\* load_hyperplanes that keeps the configured num_hyperplanes.
load_hyperplanes_keep_count(m, tbl) ==
    [m EXCEPT !.hyperplanes = fetch_all_hyperplanes(tbl)]

\* _BRPModel.load_hyperplanes.
load_hyperplanes(m, tbl) ==
    [m EXCEPT !.hyperplanes = fetch_all_hyperplanes(tbl),
              !.num_hyperplanes = Len(tbl)]

(***************************************************************************)
(* Operations.                                                             *)
(***************************************************************************)
\* Bucket objects a caller may hold: unattached (id None), or carrying the id
\* a create or fetch once gave, which a later clean may have removed.
HeldBuckets == {[id |-> i, hash |-> 0] : i \in 0 .. MaxBuckets}

\* A fresh store file, and a model loaded from it without force_init.
Init ==
    /\ hyperplane = <<>>
    /\ bucket = <<>>
    /\ data = <<>>
    /\ \E r \in BucketSizes :
          model = [hyperplanes |-> <<>>, num_hyperplanes |-> 0, bucket_size |-> r]
    /\ pc = "idle"
    /\ cursor = <<>>
    /\ ret = [op |-> "init"]

\* The three tables of the store, as Index.update addresses them.
Tables == [hyperplane |-> hyperplane, bucket |-> bucket, data |-> data]

\* Index(db_file, force_init) that never unlinks the database file.
Open_keep_file(force) ==
    /\ pc = "idle"
    /\ ret' = [op |-> "open", force |-> force]
    /\ UNCHANGED <<hyperplane, bucket, data, model, pc, cursor>>

\* Index(db_file, force_init): Index._init_db.
Open(force) ==
    /\ pc = "idle"
    /\ IF force
       THEN hyperplane' = <<>> /\ bucket' = <<>> /\ data' = <<>>
       ELSE UNCHANGED <<hyperplane, bucket, data>>
    /\ ret' = [op |-> "open", force |-> force]
    /\ UNCHANGED <<model, pc, cursor>>

\* b = Bucket(hash=h); index.create(b): ret keeps the id of the object
\* returned and the caller's object b as the call leaves it.
CreateBucket(h) ==
    /\ pc = "idle"
    /\ LET r == _create_bucket(bucket, [id |-> None, hash |-> h])
       IN  /\ Len(r.tbl) <= MaxBuckets
           /\ bucket' = r.tbl
           /\ ret' = [op |-> "create_bucket", hash |-> h, id |-> r.model.id,
                      held |-> r.arg]
    /\ UNCHANGED <<hyperplane, data, model, pc, cursor>>

\* Index.create(Data(raw, embedding, bucket)), as populate and callers do.
CreateData(raw, embedding, b) ==
    /\ pc = "idle"
    /\ Len(data) < MaxData
    /\ LET r == _create_data(data, [id |-> None, raw |-> raw,
                                    embedding |-> embedding, bucket |-> b])
       IN  /\ data' = r.tbl
           /\ ret' = [op |-> "create_data", id |-> r.model.id]
    /\ UNCHANGED <<hyperplane, bucket, model, pc, cursor>>

\* Index.update(d) for a fetched Data d whose bucket the caller has set.
UpdateData(i, b) ==
    /\ pc = "idle"
    /\ i \in 1 .. Len(data)
    /\ LET r == update("Data", [hydrate(data[i], bucket) EXCEPT !.bucket = b], Tables)
       IN  /\ hyperplane' = r.tbls.hyperplane
           /\ bucket' = r.tbls.bucket
           /\ data' = r.tbls.data
    /\ ret' = [op |-> "update_data"]
    /\ UNCHANGED <<model, pc, cursor>>

\* Index.update(Bucket) with the id and hash the caller has set.
UpdateBucket(id_, h) ==
    /\ pc = "idle"
    /\ LET r == update("Bucket", [id |-> id_, hash |-> h], Tables)
       IN  /\ hyperplane' = r.tbls.hyperplane
           /\ bucket' = r.tbls.bucket
           /\ data' = r.tbls.data
    /\ ret' = [op |-> "update_bucket"]
    /\ UNCHANGED <<model, pc, cursor>>

\* Index.update(Hyperplane(id, vector)).
UpdateHyperplane(id_, vector) ==
    /\ pc = "idle"
    /\ LET r == update("Hyperplane", [id |-> id_, vector |-> vector], Tables)
       IN  /\ hyperplane' = r.tbls.hyperplane
           /\ bucket' = r.tbls.bucket
           /\ data' = r.tbls.data
           /\ ret' = [op |-> "update_hyperplane", result |-> r.result]
    /\ UNCHANGED <<model, pc, cursor>>

\* Index.fetch_data(raw).
FetchData(raw) ==
    /\ pc = "idle"
    /\ ret' = [op |-> "fetch_data", raw |-> raw, result |-> fetch_data(data, bucket, raw)]
    /\ UNCHANGED <<hyperplane, bucket, data, model, pc, cursor>>

\* list(Index.fetch_all_data()).
FetchAllData ==
    /\ pc = "idle"
    /\ ret' = [op |-> "fetch_all_data", result |-> fetch_all_data(data, bucket)]
    /\ UNCHANGED <<hyperplane, bucket, data, model, pc, cursor>>

\* Index.fetch_bucket(hash).
FetchBucket(hash) ==
    /\ pc = "idle"
    /\ ret' = [op |-> "fetch_bucket", hash |-> hash, result |-> fetch_bucket(bucket, hash)]
    /\ UNCHANGED <<hyperplane, bucket, data, model, pc, cursor>>

\* list(Index.fetch_all_hyperplanes()).
FetchAllHyperplanes ==
    /\ pc = "idle"
    /\ ret' = [op |-> "fetch_all_hyperplanes", result |-> fetch_all_hyperplanes(hyperplane)]
    /\ UNCHANGED <<hyperplane, bucket, data, model, pc, cursor>>

\* list(Index.fetch_bucket_data(b)) for a Bucket object the caller holds.
FetchBucketData(b) ==
    /\ pc = "idle"
    /\ ret' = [op |-> "fetch_bucket_data", bucket |-> b,
               result |-> fetch_bucket_data(data, b)]
    /\ UNCHANGED <<hyperplane, bucket, data, model, pc, cursor>>

\* Index.clean(*model_type).
Clean(types) ==
    /\ pc = "idle"
    /\ hyperplane' = IF "hyperplane" \in types THEN <<>> ELSE hyperplane
    /\ bucket' = IF "bucket" \in types THEN <<>> ELSE bucket
    /\ data' = IF "data" \in types THEN <<>> ELSE data
    /\ ret' = [op |-> "clean"]
    /\ UNCHANGED <<model, pc, cursor>>

\* _BRPModel.generate_buckets up to the loop: clean(Bucket, Hyperplane), then
\* the SELECT of fetch_all_data.  With no Data the loop body never runs.
generate_buckets(m) ==
    /\ hyperplane' = <<>>
    /\ bucket' = <<>>
    /\ model' = m
    /\ cursor' = data
    /\ pc' = IF data = <<>> THEN "idle" ELSE "build"
    /\ ret' = [op |-> "build", status |-> IF data = <<>> THEN "ok" ELSE "running"]
    /\ UNCHANGED data

\* BucketedRandomProjection(num_hyperplanes, bucket_size).load_model(index, force_init).
LoadModel(num_hyperplanes, bucket_size, force_init) ==
    /\ pc = "idle"
    /\ LET m == [hyperplanes |-> <<>>, num_hyperplanes |-> num_hyperplanes,
                 bucket_size |-> bucket_size]
       IN  IF force_init
           THEN generate_buckets(m)
           ELSE /\ model' = load_hyperplanes(m, hyperplane)
                /\ ret' = [op |-> "load"]
                /\ UNCHANGED <<hyperplane, bucket, data, pc, cursor>>

\* model.generate_buckets() called on the model object at hand.
GenerateBuckets ==
    /\ pc = "idle"
    /\ generate_buckets(model)

\* The hyperplane table after create(Hyperplane(vector=w)) for each w of ws.
RECURSIVE create_hyperplanes(_, _)
create_hyperplanes(tbl, ws) ==
    IF ws = <<>> THEN tbl
    ELSE create_hyperplanes(_create_hyperplane(tbl, [id |-> None, vector |-> ws[1]]).tbl,
                            Tail(ws))

\* One pass of generate_buckets' loop body, for the next row of the cursor.
BuildStep ==
    /\ pc = "build"
    /\ cursor # <<>>
    /\ LET d == hydrate(Head(cursor), bucket)
       IN  \E ws \in IF model.hyperplanes = <<>>
                     THEN _gen_random_hyperplanes(model.num_hyperplanes, Len(d.embedding))
                     ELSE {<<>>} :
             LET hs == model.hyperplanes \o
                           [j \in 1 .. Len(ws) |-> [id |-> None, vector |-> ws[j]]]
                 key == hash_index(hs, d.embedding, model.bucket_size)
             IN  /\ hyperplane' = create_hyperplanes(hyperplane, ws)
                 /\ model' = [model EXCEPT !.hyperplanes = hs]
                 /\ IF key.status = "error"
                    THEN /\ pc' = "idle"
                         /\ cursor' = <<>>
                         /\ ret' = [op |-> "build", status |-> "error"]
                         /\ UNCHANGED <<bucket, data>>
                    ELSE LET r == _create_bucket(bucket, [id |-> None, hash |-> key.value])
                             u == update("Data", [d EXCEPT !.bucket = <<r.model>>],
                                         [Tables EXCEPT !.bucket = r.tbl])
                         IN  /\ bucket' = u.tbls.bucket
                             /\ data' = u.tbls.data
                             /\ cursor' = Tail(cursor)
                             /\ pc' = IF Tail(cursor) = <<>> THEN "idle" ELSE "build"
                             /\ ret' = [op |-> "build",
                                        status |-> IF Tail(cursor) = <<>> THEN "ok"
                                                   ELSE "running"]

\* A query that also drops the Data it has ranked.
Knn_consuming(query, k) ==
    /\ pc = "idle"
    /\ ret' = [op |-> "knn", query |-> query, k |-> k,
               result |-> get_approximate_nearest_neighbors(model, bucket, data, query, k)]
    /\ data' = IF ret'.result.status = "ok" /\ ret'.result.value # <<>> THEN <<>> ELSE data
    /\ UNCHANGED <<hyperplane, bucket, model, pc, cursor>>

\* model.get_approximate_nearest_neighbors(query, k).
Knn(query, k) ==
    /\ pc = "idle"
    /\ ret' = [op |-> "knn", query |-> query, k |-> k,
               result |-> get_approximate_nearest_neighbors(model, bucket, data, query, k)]
    /\ UNCHANGED <<hyperplane, bucket, data, model, pc, cursor>>

\* Vectors a caller sets on a Hyperplane before Index.update.
UpdateVectors == {<<0, 1>>}

\* The model's life cycle over a populated store: open, populate, build,
\* load, rebuild, clean, query, update of a hyperplane, and the fetches.
Next ==
    \/ \E force \in BOOLEAN : Open(force)
    \/ \E rec \in Dataset : CreateData(rec.raw, rec.embedding, <<>>)
    \/ \E types \in SUBSET {"hyperplane", "bucket", "data"} : Clean(types)
    \/ \E n \in 1 .. MaxH, r \in BucketSizes, f \in BOOLEAN : LoadModel(n, r, f)
    \/ GenerateBuckets
    \/ BuildStep
    \/ \E q \in Queries, k \in -1 .. MaxK : Knn(q, k)
    \/ \E i \in 1 .. MaxH, v \in UpdateVectors : UpdateHyperplane(i, v)
    \/ \E rec \in Dataset : FetchData(rec.raw)
    \/ FetchAllData
    \/ \E b \in HeldBuckets : FetchBucketData(b)
    \/ \E h \in Hashes : FetchBucket(h)
    \/ FetchAllHyperplanes

Spec == Init /\ [][Next]_vars

\* The store's create / update / clean / fetch interface, called in any order.
NextStore ==
    \/ \E force \in BOOLEAN : Open(force)
    \/ \E h \in Hashes : CreateBucket(h)
    \/ \E rec \in Dataset, b \in {<<>>} \cup {<<x>> : x \in HeldBuckets} :
          CreateData(rec.raw, rec.embedding, b)
    \/ \E i \in 1 .. MaxData, b \in {<<x>> : x \in HeldBuckets} : UpdateData(i, b)
    \/ \E i \in 1 .. MaxBuckets, h \in Hashes : UpdateBucket(i, h)
    \/ \E types \in SUBSET {"hyperplane", "bucket", "data"} : Clean(types)
    \/ \E rec \in Dataset : FetchData(rec.raw)
    \/ FetchAllData
    \/ \E b \in HeldBuckets : FetchBucketData(b)

SpecStore == Init /\ [][NextStore]_vars

\* The hashsets _compute_hash_set can hand to _flatten_hashset: one integer
\* per hyperplane, of either sign; none when the model has no hyperplane.
HashSets == UNION {[1 .. n -> -MaxBin .. MaxBin] : n \in 0 .. MaxHashLen}

\* A store as Init leaves it, and a hashset about to be flattened.
InitFlatten ==
    /\ hyperplane = <<>>
    /\ bucket = <<>>
    /\ data = <<>>
    /\ \E r \in BucketSizes :
          model = [hyperplanes |-> <<>>, num_hyperplanes |-> 0, bucket_size |-> r]
    /\ pc = "idle"
    /\ cursor = <<>>
    /\ \E u \in HashSets : ret = [op |-> "hashset", u |-> u]

\* _BRPModel._flatten_hashset(u).
Flatten ==
    /\ ret.op = "hashset"
    /\ ret' = [op |-> "flatten", u |-> ret.u, result |-> _flatten_hashset(ret.u)]
    /\ UNCHANGED <<hyperplane, bucket, data, model, pc, cursor>>

NextFlatten == Flatten

SpecFlatten == InitFlatten /\ [][NextFlatten]_vars

(***************************************************************************)
(* Properties.                                                             *)
(***************************************************************************)
BucketIds(tbl) == {tbl[i].id : i \in 1 .. Len(tbl)}
RowsWithHash(tbl, h) == {i \in 1 .. Len(tbl) : tbl[i].hash = h}

\* C1: create(Bucket(hash=h)) is get-or-create.  If a bucket with hash h is
\* stored, the call returns the id of a stored bucket with that hash and the
\* bucket table is unchanged; otherwise exactly one row [new id, h] is added
\* and its id, which no other row has, is returned.
C1_GetOrCreate ==
    [][ret'.op = "create_bucket" =>
         LET h == ret'.hash
             existing == RowsWithHash(bucket, h)
         IN  IF existing # {}
             THEN /\ bucket' = bucket
                  /\ ret'.id \in {bucket[i].id : i \in existing}
             ELSE /\ Len(bucket') = Len(bucket) + 1
                  /\ SubSeq(bucket', 1, Len(bucket)) = bucket
                  /\ bucket'[Len(bucket')] = [id |-> ret'.id, hash |-> h]
                  /\ ret'.id \notin BucketIds(bucket)
                  /\ ret'.id # None]_vars

\* A create that returned the first of two stored buckets: the lookup hit.
C1_Witness ==
    /\ ret.op = "create_bucket"
    /\ Len(bucket) = 2
    /\ ret.id = bucket[1].id
    /\ ret.hash = bucket[1].hash
    /\ bucket[2].hash # bucket[1].hash

\* C2: no two stored buckets have the same hash.
C2_BucketHashUnique ==
    \A i, j \in 1 .. Len(bucket) : i # j => bucket[i].hash # bucket[j].hash

\* C3: every Data whose bucket_id is set references a stored bucket.
C3_ReferentialIntegrity ==
    \A i \in 1 .. Len(data) :
        data[i].bucket_id # None => data[i].bucket_id \in BucketIds(bucket)

\* The key of a stored row's embedding under a list of hyperplanes.
KeyOf(hs, row) == hash_index(hs, __post_init__(row.embedding), model.bucket_size)

BuildCompleted == ret.op = "build" /\ ret.status = "ok"

\* C4: after a completed build over a non-empty store every Data has a
\* bucket, whose hash is the key of the embedding under the stored
\* hyperplanes, in id order, and the model's bucket width.
C4_BuiltPostcondition ==
    (BuildCompleted /\ data # <<>>) =>
        \A i \in 1 .. Len(data) :
            LET key == KeyOf(fetch_all_hyperplanes(hyperplane), data[i])
            IN  /\ data[i].bucket_id # None
                /\ key.status = "ok"
                /\ \E j \in 1 .. Len(bucket) :
                      bucket[j].id = data[i].bucket_id /\ bucket[j].hash = key.value

\* C5: after a completed build over a non-empty store every Data is assigned,
\* two Data whose embeddings have the same key under the model's hyperplanes
\* have the same bucket id, and there are as many buckets as distinct keys.
C5_AssignmentConsistency ==
    (BuildCompleted /\ data # <<>>) =>
        /\ \A i \in 1 .. Len(data) :
              /\ KeyOf(model.hyperplanes, data[i]).status = "ok"
              /\ data[i].bucket_id # None
        /\ \A i, j \in 1 .. Len(data) :
              KeyOf(model.hyperplanes, data[i]).value = KeyOf(model.hyperplanes, data[j]).value
                  => data[i].bucket_id = data[j].bucket_id
        /\ Len(bucket) =
              Cardinality({KeyOf(model.hyperplanes, data[i]).value : i \in 1 .. Len(data)})

\* A completed build that put two Data with different embeddings in one bucket.
C5_Witness ==
    /\ BuildCompleted
    /\ Len(data) = 2
    /\ data[1].embedding # data[2].embedding
    /\ data[1].bucket_id # None
    /\ data[1].bucket_id = data[2].bucket_id

\* C6: after a build the hyperplane table has num_hyperplanes rows.
C6_HyperplaneCount ==
    BuildCompleted => Len(hyperplane) = model.num_hyperplanes

\* C7: inside a build, every Data the loop has not reached yet has no bucket.
C7_RebuildClearsAssignments ==
    pc = "build" =>
        \A c \in 1 .. Len(cursor) :
            \A i \in 1 .. Len(data) :
                data[i].id = cursor[c].id => data[i].bucket_id = None

\* The key of the last query, and the stored bucket fetch_bucket gives for it.
QueryKey == hash_index(model.hyperplanes, ret.query, model.bucket_size)

\* C8: a query whose key matches no stored bucket returns [].
C8_EmptyBucketReturnsEmpty ==
    (/\ ret.op = "knn"
     /\ QueryKey.status = "ok"
     /\ RowsWithHash(bucket, QueryKey.value) = {})
        => ret.result = [status |-> "ok", value |-> <<>>]

\* Candidate i comes before candidate j: nearer, or as near and of lower id.
Before(q, i, j) ==
    LET di == dist(q, __post_init__(data[i].embedding))
        dj == dist(q, __post_init__(data[j].embedding))
    IN  di < dj \/ (di = dj /\ data[i].id < data[j].id)

\* C9: a query with k >= 0 that returns, returns min(k, n) pairs of the n
\* Data of its bucket: the first min(k, n) of them by ascending distance,
\* equal distances by ascending id, each as (distance, raw).
C9_KnnOrderingLength ==
    (ret.op = "knn" /\ ret.k >= 0 /\ ret.result.status = "ok") =>
        LET q == ret.query
            res == ret.result.value
            hit == RowsWithHash(bucket, QueryKey.value)
            b == bucket[CHOOSE i \in hit : \A j \in hit : i <= j]
            cand == {i \in 1 .. Len(data) : data[i].bucket_id = b.id}
            n == Cardinality(cand)
        IN  /\ QueryKey.status = "ok"
            /\ hit # {}
            /\ Len(res) = (IF ret.k < n THEN ret.k ELSE n)
            /\ \E f \in [1 .. Len(res) -> cand] :
                  /\ \A p \in 1 .. Len(res) :
                        res[p] = <<dist(q, __post_init__(data[f[p]].embedding)),
                                   data[f[p]].raw>>
                  /\ \A p, p2 \in 1 .. Len(res) : p < p2 => Before(q, f[p], f[p2])
                  /\ \A c \in cand \ {f[p] : p \in 1 .. Len(res)} :
                        \A p \in 1 .. Len(res) : Before(q, f[p], c)

\* A query with k = 1 over a bucket of two equidistant Data: the one of lower
\* id is returned and the other cut.
C9_Witness ==
    /\ ret.op = "knn"
    /\ ret.k = 1
    /\ ret.result = [status |-> "ok", value |-> <<<<1, "A">>>>]
    /\ Len(data) = 2
    /\ data[1].raw = "A"
    /\ data[2].raw = "B"
    /\ data[1].bucket_id = data[2].bucket_id

\* C10: a query with k <= 0 that returns, returns [].
C10_NonPositiveK ==
    (ret.op = "knn" /\ ret.k <= 0 /\ ret.result.status = "ok")
        => ret.result.value = <<>>

\* C11: every pair a query returns is (distance to the query, raw) of a
\* stored Data whose bucket_id is the id of a stored bucket whose hash is the
\* query's key, each such Data being returned at most once.
C11_KnnCandidates ==
    (ret.op = "knn" /\ ret.result.status = "ok") =>
        LET res == ret.result.value
            q == ret.query
            inb == {i \in 1 .. Len(data) :
                      /\ data[i].bucket_id # None
                      /\ \E j \in 1 .. Len(bucket) :
                            /\ bucket[j].id = data[i].bucket_id
                            /\ QueryKey.status = "ok"
                            /\ bucket[j].hash = QueryKey.value}
        IN  \E f \in [1 .. Len(res) -> inb] :
               /\ \A p, p2 \in 1 .. Len(res) : p # p2 => f[p] # f[p2]
               /\ \A p \in 1 .. Len(res) :
                     res[p] = <<dist(q, __post_init__(data[f[p]].embedding)), data[f[p]].raw>>

\* A query that returned the one Data of its bucket while the other stored
\* Data is assigned to a different bucket.
C11_Witness ==
    /\ ret.op = "knn"
    /\ ret.k = 2
    /\ ret.result.status = "ok"
    /\ Len(ret.result.value) = 1
    /\ Len(data) = 2
    /\ data[1].bucket_id # None
    /\ data[2].bucket_id # None
    /\ data[1].bucket_id # data[2].bucket_id

\* The Bucket a fetched Data should carry for a stored row: None when the
\* row's bucket_id is unset, else the stored bucket with that id.
ExpectedBucket(row) ==
    IF row.bucket_id = None THEN <<>>
    ELSE <<[id |-> row.bucket_id,
            hash |-> bucket[CHOOSE j \in 1 .. Len(bucket) : bucket[j].id = row.bucket_id].hash]>>

\* C12: fetch_all_data returns every stored Data, and fetch_data(raw) the
\* first stored Data with that raw, with the bucket field equal to the stored
\* bucket whose id is the row's bucket_id (same id and hash), and None when
\* the row's bucket_id is unset.
C12_FetchHydration ==
    /\ ret.op = "fetch_all_data" =>
          /\ Len(ret.result) = Len(data)
          /\ \A i \in 1 .. Len(data) :
                /\ ret.result[i].id = data[i].id
                /\ (data[i].bucket_id = None \/ data[i].bucket_id \in BucketIds(bucket))
                      => ret.result[i].bucket = ExpectedBucket(data[i])
    /\ ret.op = "fetch_data" =>
          LET hits == {i \in 1 .. Len(data) : data[i].raw = ret.raw}
          IN  IF hits = {} THEN ret.result = <<>>
              ELSE LET i == CHOOSE x \in hits : \A y \in hits : x <= y
                   IN  /\ Len(ret.result) = 1
                       /\ ret.result[1].id = data[i].id
                       /\ (data[i].bucket_id = None \/ data[i].bucket_id \in BucketIds(bucket))
                             => ret.result[1].bucket = ExpectedBucket(data[i])

\* C13: fetch_bucket_data(b) for a Bucket whose id is None raises
\* PermissionError and yields nothing; for a Bucket with an id it yields, in
\* id order, exactly the stored Data whose bucket_id is that id.
C13_FetchBucketData ==
    ret.op = "fetch_bucket_data" =>
        IF ret.bucket.id = None
        THEN ret.result = [status |-> "error", error |-> "PermissionError"]
        ELSE /\ ret.result.status = "ok"
             /\ LET out == ret.result.value
                    members == {i \in 1 .. Len(data) : data[i].bucket_id = ret.bucket.id}
                IN  /\ Len(out) = Cardinality(members)
                    /\ \A p, p2 \in 1 .. Len(out) : p < p2 => out[p].id < out[p2].id
                    /\ \A p \in 1 .. Len(out) :
                          \E i \in members :
                             /\ out[p].id = data[i].id
                             /\ out[p].raw = data[i].raw
                             /\ str(out[p].embedding) = data[i].embedding

\* fetch_bucket_data yielded one of two stored Data: the other has no bucket.
C13_Witness ==
    /\ ret.op = "fetch_bucket_data"
    /\ ret.bucket.id # None
    /\ ret.result.status = "ok"
    /\ Len(ret.result.value) = 1
    /\ Len(data) = 2
    /\ \E i \in 1 .. 2 : data[i].bucket_id = None

\* C14: update of a Hyperplane raises TypeError and leaves the hyperplane,
\* bucket and data tables as they were.
C14_UpdateDispatch ==
    [][ret'.op = "update_hyperplane" =>
         /\ ret'.result = [status |-> "error", error |-> "TypeError"]
         /\ hyperplane' = hyperplane
         /\ bucket' = bucket
         /\ data' = data]_vars

\* An update of a Hyperplane was refused while hyperplanes, buckets and
\* assigned Data are stored.
C14_Witness ==
    /\ ret.op = "update_hyperplane"
    /\ ret.result.status = "error"
    /\ hyperplane # <<>>
    /\ bucket # <<>>
    /\ \E i \in 1 .. Len(data) : data[i].bucket_id # None

\* C15: an entity returned by create carries an id that is not None, is the
\* id of its stored row, and is the id of no other stored entity of its type:
\* for the Data just created, and for the Hyperplanes the model holds (during
\* a build they are the entities create(Hyperplane) returned).
C15_CreateReturnsId ==
    /\ ret.op = "create_data" =>
          /\ ret.id # None
          /\ data[Len(data)].id = ret.id
          /\ \A i \in 1 .. Len(data) - 1 : data[i].id # ret.id
    /\ \A j \in 1 .. Len(model.hyperplanes) :
          /\ model.hyperplanes[j].id # None
          /\ \A j2 \in 1 .. Len(model.hyperplanes) :
                j # j2 => model.hyperplanes[j].id # model.hyperplanes[j2].id

\* C16: load_model without force_init leaves the hyperplane, bucket and data
\* tables unchanged and gives a model whose hyperplane list is the stored
\* hyperplanes in id order (same ids, same vectors) and whose num_hyperplanes
\* is their count.
C16_LoadModel ==
    [][ret'.op = "load" =>
         /\ hyperplane' = hyperplane
         /\ bucket' = bucket
         /\ data' = data
         /\ model'.num_hyperplanes = Len(hyperplane)
         /\ Len(model'.hyperplanes) = Len(hyperplane)
         /\ \A i \in 1 .. Len(hyperplane) :
               /\ model'.hyperplanes[i].id = hyperplane[i].id
               /\ str(model'.hyperplanes[i].vector) = hyperplane[i].vector
               /\ \A j \in 1 .. Len(hyperplane) :
                     i < j => model'.hyperplanes[i].id < model'.hyperplanes[j].id]_vars

\* A model loaded from a store that holds two hyperplanes, with their ids.
C16_Witness ==
    /\ ret.op = "load"
    /\ Len(hyperplane) = 2
    /\ model.num_hyperplanes = 2
    /\ model.hyperplanes[1].id = 1
    /\ model.hyperplanes[2].id = 2
    /\ data # <<>>

\* C17: opening the store with force_init leaves no row in the hyperplane,
\* bucket and data tables, whatever they held; opening the existing store
\* without force_init leaves every row of the three tables as it was.
C17_OpenForceInit ==
    [][ret'.op = "open" =>
         IF ret'.force
         THEN hyperplane' = <<>> /\ bucket' = <<>> /\ data' = <<>>
         ELSE hyperplane' = hyperplane /\ bucket' = bucket /\ data' = data]_vars

\* The store was opened with force_init after a build: the model object
\* still holds the hyperplanes it built with, the tables are empty.
C17_Witness ==
    /\ ret.op = "open"
    /\ ret.force
    /\ model.hyperplanes # <<>>
    /\ hyperplane = <<>>
    /\ bucket = <<>>
    /\ data = <<>>

StoredPairs ==
    {<<data[p[1]].raw, bucket[p[2]].hash>> :
        p \in {x \in (1 .. Len(data)) \X (1 .. Len(bucket)) :
                  bucket[x[2]].id = data[x[1]].bucket_id}}
StoredHashes == {bucket[j].hash : j \in 1 .. Len(bucket)}

\* C19: what a completed build leaves is determined by the Data, the
\* hyperplane vectors the model hashed with and the bucket width alone: every
\* Data is assigned, the (raw, bucket hash) pairs are exactly (raw, key of the
\* embedding) and the bucket hashes exactly the keys.  So a rebuild over the
\* same Data with the same vectors and width gives the same hashes and pairs,
\* whatever the store held before and whatever ids the rows get.
C19_RebuildPurity ==
    BuildCompleted =>
        /\ \A i \in 1 .. Len(data) :
              /\ data[i].bucket_id \in BucketIds(bucket)
              /\ KeyOf(model.hyperplanes, data[i]).status = "ok"
        /\ StoredPairs = {<<data[i].raw, KeyOf(model.hyperplanes, data[i]).value>> :
                              i \in 1 .. Len(data)}
        /\ StoredHashes = {KeyOf(model.hyperplanes, data[i]).value : i \in 1 .. Len(data)}

\* A build completed a second time on the same model object: the stored
\* hyperplanes were cleaned and not sampled again, the model hashed with the
\* vectors it already held, and the two Data are in two buckets again.
C19_Witness ==
    /\ BuildCompleted
    /\ hyperplane = <<>>
    /\ model.hyperplanes # <<>>
    /\ Len(data) = 2
    /\ Len(bucket) = 2

\* Sum over i = 1 .. n of (u[i] * 2) ** (H - i), H the length of u.
RECURSIVE PowerSum(_, _)
PowerSum(u, n) ==
    IF n = 0 THEN 0 ELSE (u[n] * 2) ^ (Len(u) - n) + PowerSum(u, n - 1)

\* C20: for a hashset [h_1 .. h_H] of integers of either sign, H >= 1,
\* _flatten_hashset returns h_H + (h_1*2)**(H-1) + ... + (h_(H-1)*2)**1;
\* for H = 1 the key is h_1.
C20_FlattenFormula ==
    (ret.op = "flatten" /\ Len(ret.u) >= 1) =>
        LET u == ret.u
            H == Len(u)
        IN  /\ ret.result = [status |-> "ok", value |-> u[H] + PowerSum(u, H - 1)]
            /\ H = 1 => ret.result.value = u[1]

\* The hashset [-1, 1, -2] was flattened to (-2)**2 + 2**1 + (-2) = 4: the
\* even power has lost the sign of the first hash.
C20_Witness ==
    /\ ret.op = "flatten"
    /\ ret.u = <<-1, 1, -2>>
    /\ ret.result = [status |-> "ok", value |-> 4]

\* C21: when a model is loaded from the store right after a completed build,
\* its query for the embedding of any stored Data, with any k >= 1, returns a
\* non-empty list whose first pair has distance 0.
C21_BuildQueryConsistency ==
    [][(BuildCompleted /\ ret'.op = "load") =>
         \A i \in 1 .. Len(data'), k \in 1 .. MaxK :
            LET res == get_approximate_nearest_neighbors(
                           model', bucket', data', __post_init__(data'[i].embedding), k)
            IN  /\ res.status = "ok"
                /\ res.value # <<>>
                /\ res.value[1][1] = 0]_vars

\* The operations that only read the store.
ReadOps == {"knn", "fetch_bucket", "fetch_data", "fetch_bucket_data",
            "fetch_all_data", "fetch_all_hyperplanes"}

\* C22: knn, fetch_bucket, fetch_data, fetch_bucket_data, fetch_all_data and
\* fetch_all_hyperplanes leave the hyperplane, bucket and data tables
\* unchanged, whether they return or raise; and the hyperplane table changes
\* only in a step of a build, a clean or an open.
C22_ReadsArePure ==
    [][/\ ret'.op \in ReadOps =>
             hyperplane' = hyperplane /\ bucket' = bucket /\ data' = data
       /\ hyperplane' # hyperplane => ret'.op \in {"build", "clean", "open"}]_vars

\* A query returned a pair, over a store holding hyperplanes, buckets and Data.
C22_Witness ==
    /\ ret.op = "knn"
    /\ ret.result.status = "ok"
    /\ ret.result.value # <<>>
    /\ hyperplane # <<>>
    /\ bucket # <<>>
    /\ data # <<>>

\* C23: after create(b) for a Bucket object b, b.id is the id of the stored
\* bucket with b's hash, whether the call inserted the bucket or found it.
C23_HeldBucketAttached ==
    ret.op = "create_bucket" =>
        /\ ret.held.id # None
        /\ \E j \in 1 .. Len(bucket) :
              bucket[j].id = ret.held.id /\ bucket[j].hash = ret.held.hash

=============================================================================
